---- MODULE Spec2Model ----
(***************************************************************************)
(* A model of the media-download backend of src/main.py.                   *)
(*                                                                         *)
(* The file holds two variants of the server:                              *)
(*   - the SSE variant (lines 1-427): jobs record their status in the      *)
(*     download_progress dictionary, and /api/progress/{id} streams it;    *)
(*   - the WebSocket variant (lines 429-855): jobs send events to the      *)
(*     socket registered in active_connections, and record nothing.        *)
(* The variable `variant` says which server runs.                          *)
(*                                                                         *)
(* The server is one asyncio event loop: a coroutine runs until it awaits  *)
(* something that suspends it.  An action of the model is one such run.    *)
(* subprocess.run and YoutubeDL.extract_info are called synchronously from *)
(* coroutines, so the job that is inside one of them keeps the loop's      *)
(* thread: `running` names that job, and no handler runs meanwhile.        *)
(***************************************************************************)
EXTENDS Integers, Sequences, FiniteSets, TLC

(* ------------------------------ bounds -------------------------------- *)
MaxJobs == 2

MaxStreams == 2

MaxHooks == 2

MaxTracks == 2

(* --------------------------- value spaces ------------------------------ *)
Jobs == 1..MaxJobs

Streams == 1..MaxStreams

\* An id no initiate_download ever returned (uuid4 values are never reused).
UnknownId == 0

NoJob == 0

Variants == {"sse", "ws"}

SpotifyUrl == "https://open.spotify.com/track/x"

MediaUrl == "https://youtu.be/x"

Urls == {"", SpotifyUrl, MediaUrl}

FormatIds == {"", "137+140"}

\* "spotify.com" in url
IsSpotify(u) == u = SpotifyUrl

\* The d["status"] values yt-dlp passes to a progress hook.
HookStatuses == {"downloading", "finished", "error"}

\* str(e) of what extract_info raises.
YtdlpErrors == {"ERROR: Requested format is not available",
                "ERROR: Sign in to confirm you're not a bot"}

\* result.stderr.strip() of a failed spotdl run ("" when it printed nothing).
SpotdlStderr == {"", "spotdl: rate limited"}

TimeoutMsg == "Command 'spotdl' timed out after 300 seconds"

\* A file name: stem, a number that keeps names apart, and the extension.
File(stem, n, ext) == [stem |-> stem, n |-> n, ext |-> ext]

\* f.endswith(".mp3")
IsMp3(f) == f.ext = "mp3"

\* The tracks a spotdl run may write, and the .mp3 files of earlier jobs.
TrackFiles == {File("track", n, "mp3") : n \in 1..MaxTracks}

OldFiles == {File("old", 1, "mp3")}

\* os.path.basename(ydl.prepare_filename(info)) for job j.
MediaFile(j) == File("video", j, "mp4")

\* f"spotify_{download_id[:8]}.zip"
ZipFile(j) == File("spotify", j, "zip")

\* f"spotify_download_{download_id[:8]}_{len(mp3_files)}_tracks.zip"
ZipFileWs(j, n) == File("spotify_download", j * 100 + n, "zip")

VARIABLES
    variant,        \* which server of src/main.py runs
    download_progress, \* the Job Registry: a dictionary id -> status dictionary
    pc,             \* pc[j]: where job j's process_download task is
    url,            \* url[j]: the url job j was asked to download
    running,        \* the job whose synchronous call holds the event loop, or NoJob
    hooks,          \* hooks[j]: progress-hook calls made by the current extract_info
    mp3_files,      \* mp3_files[j]: the listed files not yet archived
    zipf,           \* zipf[j]: [name, entries, open] of the archive job j writes
    storage,        \* the regular files of DOWNLOAD_DIR
    spc,            \* spc[s]: where progress stream s (event_generator) is
    sid,            \* sid[s]: the download_id stream s was opened for
    progress_data,  \* progress_data[s]: the dictionary stream s read last
    emitted,        \* emitted[s]: "none", "progress" or "terminal": the last thing pushed
    cancelled,      \* cancelled[s]: the client dropped stream s
    active_connections, \* the WebSocket variant's dictionary id -> connection
    pending,        \* pending[j]: events of the send_progress tasks the hook created
    sent,           \* sent[j]: the events sent on a socket registered for id j
    resp,           \* the response of the last file request (download, delete_file)
    outputs,        \* outputs[j]: the files job j's downloader run wrote (history)
    sealed,         \* sealed[j]: the last registry write of job j's task was a terminal one
    late            \* late[j]: job j's task or hook wrote after a terminal write (history)

vars == <<variant, download_progress, pc, url, running, hooks, mp3_files, zipf,
          storage, spc, sid, progress_data, emitted, cancelled, active_connections,
          pending, sent, resp, outputs, sealed, late>>

wsVars == <<active_connections, pending, sent>>

jobVars == <<pc, url, running, hooks, mp3_files, zipf, outputs, sealed, late>>

streamVars == <<spc, sid, progress_data, emitted, cancelled>>

(* ------------------------- the registry dictionary --------------------- *)
\* d[k] = v
Put(d, k, v) == [x \in (DOMAIN d) \cup {k} |-> IF x = k THEN v ELSE d[x]]

\* del d[k]
Del(d, k) == [x \in (DOMAIN d) \ {k} |-> d[x]]

EmptyDict == [x \in {} |-> 0]

NoData == [status |-> "none"]

NoResp == [op |-> "none"]

NoZip == [name |-> File("", 0, ""), entries |-> {}, open |-> FALSE]

TerminalStatuses == {"done", "error"}

\* progress_data.get("status") in ["done", "error"]
IsTerminal(d) == d.status \in TerminalStatuses

Has(id) == id \in DOMAIN download_progress

(* -------------------------------- Init --------------------------------- *)
InitWith(files) ==
    /\ variant \in Variants
    /\ download_progress = EmptyDict
    /\ pc = [j \in Jobs |-> "unused"]
    /\ url = [j \in Jobs |-> ""]
    /\ running = NoJob
    /\ hooks = [j \in Jobs |-> 0]
    /\ mp3_files = [j \in Jobs |-> {}]
    /\ zipf = [j \in Jobs |-> NoZip]
    /\ storage \in SUBSET files
    /\ spc = [s \in Streams |-> "idle"]
    /\ sid = [s \in Streams |-> UnknownId]
    /\ progress_data = [s \in Streams |-> NoData]
    /\ emitted = [s \in Streams |-> "none"]
    /\ cancelled = [s \in Streams |-> FALSE]
    /\ active_connections = EmptyDict
    /\ pending = [j \in Jobs |-> <<>>]
    /\ sent = [j \in Jobs |-> <<>>]
    /\ outputs = [j \in Jobs |-> {}]
    /\ sealed = [j \in Jobs |-> FALSE]
    /\ late = [j \in Jobs |-> FALSE]
    /\ resp = NoResp

\* The server starts with what earlier runs left in DOWNLOAD_DIR.
Init == InitWith(OldFiles)

\* A handler runs only when no synchronous call holds the loop's thread.
LoopFree == running = NoJob

\* A registry write by job j's task or hook.
Write(j, d) ==
    /\ download_progress' = Put(download_progress, j, d)
    /\ sealed' = [sealed EXCEPT ![j] = IsTerminal(d)]
    /\ late' = [late EXCEPT ![j] = @ \/ sealed[j]]

\* The task of job j returns: its coroutine is over, its locals are gone and
\* the loop is free again.
Finish(j) ==
    /\ pc' = [pc EXCEPT ![j] = "finished"]
    /\ running' = NoJob
    /\ hooks' = [hooks EXCEPT ![j] = 0]
    /\ mp3_files' = [mp3_files EXCEPT ![j] = {}]

(* ---------------- the SSE variant: initiate_download ------------------- *)
\* uuid.uuid4(): an id never handed out before.
FreshId(j) == pc[j] = "unused" /\ \A k \in Jobs : k < j => pc[k] # "unused"

\* POST /api/download.  A request without url or format_id is answered 400
\* and changes nothing.
initiate_download(j, u, format_id) ==
    /\ variant = "sse"
    /\ LoopFree
    /\ u # "" /\ format_id # ""
    /\ FreshId(j)
    /\ download_progress' = Put(download_progress, j,
            [status |-> "starting", message |-> "Initializing download..."])
    /\ pc' = [pc EXCEPT ![j] = "scheduled"]
    /\ url' = [url EXCEPT ![j] = u]
    /\ UNCHANGED <<variant, resp, wsVars, running, hooks, mp3_files, zipf, storage, outputs,
                   sealed, late, streamVars>>

(* ---------------- the SSE variant: process_download -------------------- *)
\* The task created by asyncio.create_task starts.  It runs up to the
\* synchronous call of the downloader, which keeps the loop's thread.
process_download(j) ==
    /\ variant = "sse"
    /\ LoopFree
    /\ pc[j] = "scheduled"
    /\ running' = j
    /\ IF IsSpotify(url[j])
         THEN /\ Write(j, [status |-> "downloading",
                           message |-> "Downloading from Spotify..."])
              /\ pc' = [pc EXCEPT ![j] = "subprocess"]
         ELSE /\ pc' = [pc EXCEPT ![j] = "extract_info"]
              /\ UNCHANGED <<download_progress, sealed, late>>
    /\ UNCHANGED <<variant, resp, wsVars, url, hooks, mp3_files, zipf, storage, outputs, streamVars>>

(* ------------- the SSE variant: process_ytdlp_download ----------------- *)
\* The dictionary progress_hook stores for a "downloading" event.
DownloadingData ==
    [status |-> "downloading", percent |-> "", downloaded_bytes |-> 0,
     total_bytes |-> 0]

\* progress_hook(d), called by extract_info on the task's own thread.
HookWrite(j, st) ==
    IF st = "downloading"
      THEN Write(j, DownloadingData)
      ELSE IF st = "finished"
             THEN Write(j, [status |-> "processing", message |-> "Processing file..."])
             ELSE UNCHANGED <<download_progress, sealed, late>>

progress_hook(j, st) ==
    /\ variant = "sse"
    /\ running = j
    /\ pc[j] = "extract_info"
    /\ hooks[j] < MaxHooks
    /\ hooks' = [hooks EXCEPT ![j] = @ + 1]
    /\ HookWrite(j, st)
    /\ UNCHANGED <<variant, resp, wsVars, pc, url, running, mp3_files, zipf, storage, outputs,
                   streamVars>>

\* Variant of YtdlpDone that names the file while the status is not final.
YtdlpDoneProcessing(j) ==
    Write(j, [status |-> "processing", title |-> "video", filename |-> MediaFile(j),
              download_url |-> MediaFile(j)])

\* What the task stores when extract_info returned.
YtdlpDone(j) ==
    Write(j, [status |-> "done", title |-> "video", filename |-> MediaFile(j),
              download_url |-> MediaFile(j)])

\* The done status stored from inside the call, which then goes on.
ytdlp_returns_early(j) ==
    /\ variant = "sse"
    /\ running = j
    /\ pc[j] = "extract_info"
    /\ hooks[j] < MaxHooks
    /\ hooks' = [hooks EXCEPT ![j] = @ + 1]
    /\ storage' = storage \cup {MediaFile(j)}
    /\ YtdlpDone(j)
    /\ UNCHANGED <<variant, resp, wsVars, pc, running, url, mp3_files, zipf, outputs,
                   streamVars>>

\* extract_info returns: the file is in DOWNLOAD_DIR.
ytdlp_returns(j) ==
    /\ variant = "sse"
    /\ running = j
    /\ pc[j] = "extract_info"
    /\ storage' = storage \cup {MediaFile(j)}
    /\ YtdlpDone(j)
    /\ Finish(j)
    /\ UNCHANGED <<variant, resp, wsVars, url, zipf, outputs, streamVars>>

\* A handler that swallows the exception: except Exception: pass.
YtdlpExceptSilent(j, msg) == UNCHANGED <<download_progress, sealed, late>>

\* except Exception as e: of process_ytdlp_download.
YtdlpExcept(j, msg) == Write(j, [status |-> "error", error |-> msg])

\* extract_info raises.
ytdlp_raises(j, msg) ==
    /\ variant = "sse"
    /\ running = j
    /\ pc[j] = "extract_info"
    /\ YtdlpExcept(j, msg)
    /\ Finish(j)
    /\ UNCHANGED <<variant, resp, wsVars, url, zipf, storage, outputs, streamVars>>

(* ------------- the SSE variant: process_spotify_download --------------- *)
\* except Exception as e: of process_spotify_download.
SpotifyExcept(j, msg) ==
    Write(j, [status |-> "error", error |-> "Spotify download failed: " \o msg])

\* What subprocess.run itself raises: subprocess.TimeoutExpired after 300 s,
\* FileNotFoundError when spotdl is not installed.
RunErrors == {TimeoutMsg, "[Errno 2] No such file or directory: 'spotdl'"}

spotify_run_raises(j, msg) ==
    /\ variant = "sse"
    /\ running = j
    /\ pc[j] = "subprocess"
    /\ SpotifyExcept(j, msg)
    /\ Finish(j)
    /\ UNCHANGED <<variant, resp, wsVars, url, zipf, storage, outputs, streamVars>>

\* result.stderr.strip() or "Unknown spotdl error"
StderrOr(stderr) == IF stderr # "" THEN stderr ELSE "Unknown spotdl error"

\* spotdl exits with a non-zero return code.
spotify_run_fails(j, stderr) ==
    /\ variant = "sse"
    /\ running = j
    /\ pc[j] = "subprocess"
    /\ SpotifyExcept(j, StderrOr(stderr))
    /\ Finish(j)
    /\ UNCHANGED <<variant, resp, wsVars, url, zipf, storage, outputs, streamVars>>

\* [f for f in os.listdir(DOWNLOAD_DIR) if f.endswith(".mp3")]
ListMp3(files) == {f \in files : IsMp3(f)}

\* spotdl exits 0 having written the files `new`; the task lists the .mp3
\* files and stores the single file, or opens the archive.
spotify_run_returns(j, new) ==
    /\ variant = "sse"
    /\ running = j
    /\ pc[j] = "subprocess"
    /\ new \cap storage = {}
    /\ outputs' = [outputs EXCEPT ![j] = new]
    /\ LET after == storage \cup new
           listed == ListMp3(after)
       IN  IF listed = {}
             THEN /\ SpotifyExcept(j, "No files downloaded")
                  /\ Finish(j)
                  /\ storage' = after
                  /\ UNCHANGED zipf
             ELSE IF Cardinality(listed) = 1
               THEN /\ \E f \in listed :
                          Write(j, [status |-> "done", filename |-> f,
                                    download_url |-> f])
                    /\ Finish(j)
                    /\ storage' = after
                    /\ UNCHANGED zipf
               ELSE /\ Write(j, [status |-> "processing",
                                 message |-> "Creating ZIP"])
                    /\ zipf' = [zipf EXCEPT ![j] =
                                  [name |-> ZipFile(j), entries |-> {}, open |-> TRUE]]
                    /\ storage' = after \cup {ZipFile(j)}
                    /\ mp3_files' = [mp3_files EXCEPT ![j] = listed]
                    /\ pc' = [pc EXCEPT ![j] = "zipping"]
                    /\ UNCHANGED <<running, hooks>>
    /\ UNCHANGED <<variant, resp, wsVars, url, streamVars>>

\* One turn of the loop: zipf.write(mp3_path, mp3_file); os.remove(mp3_path).
zip_write(j, f) ==
    /\ variant = "sse"
    /\ running = j
    /\ pc[j] = "zipping"
    /\ f \in mp3_files[j]
    /\ f \in storage
    /\ zipf' = [zipf EXCEPT ![j].entries = @ \cup {f}]
    /\ storage' = storage \ {f}
    /\ mp3_files' = [mp3_files EXCEPT ![j] = @ \ {f}]
    /\ UNCHANGED <<variant, resp, wsVars, download_progress, pc, url, running, hooks, outputs,
                   sealed, late, streamVars>>

\* zipf.write raises OSError (the disk is full): the with block closes the
\* archive as it is and the handler stores the error.
zip_write_raises(j) ==
    /\ variant = "sse"
    /\ running = j
    /\ pc[j] = "zipping"
    /\ mp3_files[j] # {}
    /\ zipf' = [zipf EXCEPT ![j].open = FALSE]
    /\ SpotifyExcept(j, "[Errno 28] No space left on device")
    /\ Finish(j)
    /\ UNCHANGED <<variant, resp, wsVars, url, storage, outputs, streamVars>>

\* The loop is over: the with block closes the archive, the task stores it.
zip_close(j) ==
    /\ variant = "sse"
    /\ running = j
    /\ pc[j] = "zipping"
    /\ mp3_files[j] = {}
    /\ zipf' = [zipf EXCEPT ![j].open = FALSE]
    /\ Write(j, [status |-> "done", filename |-> zipf[j].name,
                 download_url |-> zipf[j].name])
    /\ Finish(j)
    /\ UNCHANGED <<variant, resp, wsVars, url, storage, outputs, streamVars>>

(* ------------- the SSE variant: stream_progress ------------------------ *)
\* GET /api/progress/{download_id}: the response starts event_generator.
stream_progress(s, id) ==
    /\ variant = "sse"
    /\ LoopFree
    /\ spc[s] = "idle"
    /\ spc' = [spc EXCEPT ![s] = "poll"]
    /\ sid' = [sid EXCEPT ![s] = id]
    /\ UNCHANGED <<variant, resp, wsVars, download_progress, storage, jobVars, progress_data,
                   emitted, cancelled>>

\* The top of the loop: if download_id in download_progress: read and yield.
\* Otherwise await asyncio.sleep(0.5).
stream_poll(s) ==
    /\ LoopFree
    /\ spc[s] = "poll"
    /\ IF Has(sid[s])
         THEN /\ progress_data' = [progress_data EXCEPT ![s] = download_progress[sid[s]]]
              /\ emitted' = [emitted EXCEPT ![s] =
                    IF IsTerminal(download_progress[sid[s]]) THEN "terminal"
                    ELSE "progress"]
              /\ spc' = [spc EXCEPT ![s] = "yield"]
         ELSE /\ spc' = [spc EXCEPT ![s] = "sleep"]
              /\ UNCHANGED <<progress_data, emitted>>
    /\ UNCHANGED <<variant, resp, wsVars, download_progress, storage, jobVars, sid, cancelled>>

\* Variant of stream_resume that takes every event for the last one.
stream_resume_breaks(s) ==
    /\ LoopFree
    /\ spc[s] = "yield"
    /\ spc' = [spc EXCEPT ![s] = "sleep1"]
    /\ UNCHANGED <<variant, resp, wsVars, download_progress, storage, jobVars, sid, progress_data,
                   emitted, cancelled>>

\* The consumer took the event: the generator goes on after the yield, to
\* asyncio.sleep(1) when what it pushed was final, to asyncio.sleep(0.5) if not.
stream_resume(s) ==
    /\ LoopFree
    /\ spc[s] = "yield"
    /\ spc' = [spc EXCEPT ![s] =
          IF IsTerminal(progress_data[s]) THEN "sleep1" ELSE "sleep"]
    /\ UNCHANGED <<variant, resp, wsVars, download_progress, storage, jobVars, sid, progress_data,
                   emitted, cancelled>>

\* asyncio.sleep(0.5) is over.
stream_wake(s) ==
    /\ LoopFree
    /\ spc[s] = "sleep"
    /\ spc' = [spc EXCEPT ![s] = "poll"]
    /\ UNCHANGED <<variant, resp, wsVars, download_progress, storage, jobVars, sid, progress_data,
                   emitted, cancelled>>

\* if download_id in download_progress: del download_progress[download_id]
Cleanup(id) ==
    download_progress' = IF Has(id) THEN Del(download_progress, id)
                         ELSE download_progress

\* asyncio.sleep(1) is over: clean up and break.
stream_cleanup(s) ==
    /\ LoopFree
    /\ spc[s] = "sleep1"
    /\ Cleanup(sid[s])
    /\ spc' = [spc EXCEPT ![s] = "ended"]
    /\ progress_data' = [progress_data EXCEPT ![s] = NoData]
    /\ UNCHANGED <<variant, resp, wsVars, storage, jobVars, sid, emitted, cancelled>>

\* A handler that cleans the registry up when the client leaves.
OnCancelCleans(s) == Cleanup(sid[s])

\* except asyncio.CancelledError: pass
OnCancel(s) == UNCHANGED download_progress

\* The client disconnects: the generator is cancelled where it is suspended.
stream_cancel(s) ==
    /\ LoopFree
    /\ spc[s] \in {"poll", "yield", "sleep", "sleep1"}
    /\ OnCancel(s)
    /\ spc' = [spc EXCEPT ![s] = "ended"]
    /\ cancelled' = [cancelled EXCEPT ![s] = TRUE]
    /\ progress_data' = [progress_data EXCEPT ![s] = NoData]
    /\ UNCHANGED <<variant, resp, wsVars, storage, jobVars, sid, emitted>>

(* ================= the WebSocket variant (lines 429-855) =============== *)
\* An event is final when it is the job's "done" or "error" event.
IsFinalEvent(d) == d.event \in {"done", "error"}

Connected(id) == id \in DOMAIN active_connections

\* send_progress(download_id, data): sent on the socket registered for the
\* id, dropped when there is none.
SendProgress(j, data) ==
    IF Connected(j)
      THEN /\ sent' = [sent EXCEPT ![j] = Append(@, data)]
           /\ emitted' = [emitted EXCEPT ![active_connections[j]] =
                 IF IsFinalEvent(data) THEN "terminal" ELSE "progress"]
      ELSE UNCHANGED <<sent, emitted>>

\* WS /ws/{download_id}: accept and register the socket under the id.
websocket_endpoint(c, id) ==
    /\ variant = "ws"
    /\ LoopFree
    /\ spc[c] = "idle"
    /\ spc' = [spc EXCEPT ![c] = "receiving"]
    /\ sid' = [sid EXCEPT ![c] = id]
    /\ active_connections' = Put(active_connections, id, c)
    /\ UNCHANGED <<variant, resp, download_progress, storage, jobVars, progress_data,
                   emitted, cancelled, pending, sent>>

\* WebSocketDisconnect, then finally: the id's entry is deleted.
websocket_disconnect(c) ==
    /\ variant = "ws"
    /\ LoopFree
    /\ spc[c] = "receiving"
    /\ spc' = [spc EXCEPT ![c] = "ended"]
    /\ cancelled' = [cancelled EXCEPT ![c] = TRUE]
    /\ active_connections' = IF Connected(sid[c]) THEN Del(active_connections, sid[c])
                             ELSE active_connections
    /\ UNCHANGED <<variant, resp, download_progress, storage, jobVars, sid, progress_data,
                   emitted, pending, sent>>

\* POST /api/download of the WebSocket variant: nothing is recorded.
initiate_download_ws(j, u, format_id) ==
    /\ variant = "ws"
    /\ LoopFree
    /\ u # "" /\ format_id # ""
    /\ FreshId(j)
    /\ pc' = [pc EXCEPT ![j] = "scheduled"]
    /\ url' = [url EXCEPT ![j] = u]
    /\ UNCHANGED <<variant, resp, wsVars, download_progress, running, hooks, mp3_files,
                   zipf, storage, outputs, sealed, late, streamVars>>

\* The task starts: the Spotify path sends "starting", then either path
\* enters its synchronous downloader call.
process_download_ws(j) ==
    /\ variant = "ws"
    /\ LoopFree
    /\ pc[j] = "scheduled"
    /\ running' = j
    /\ IF IsSpotify(url[j])
         THEN /\ SendProgress(j, [event |-> "progress", status |-> "starting"])
              /\ pc' = [pc EXCEPT ![j] = "subprocess"]
         ELSE /\ pc' = [pc EXCEPT ![j] = "extract_info"]
              /\ UNCHANGED <<sent, emitted>>
    /\ UNCHANGED <<variant, resp, download_progress, active_connections, pending, url,
                   hooks, mp3_files, zipf, storage, outputs, sealed, late,
                   spc, sid, progress_data, cancelled>>

\* progress_hook(d) of the WebSocket variant: asyncio.create_task(send_progress(..)).
\* percent stands for the numbers of the sample.
HookEvent(j, st) ==
    IF st = "downloading"
      THEN <<[event |-> "progress", status |-> "downloading", percent |-> hooks[j] + 1]>>
      ELSE IF st = "finished"
             THEN <<[event |-> "progress", status |-> "processing", percent |-> 0]>>
             ELSE <<>>

progress_hook_ws(j, st) ==
    /\ variant = "ws"
    /\ running = j
    /\ pc[j] = "extract_info"
    /\ hooks[j] < MaxHooks
    /\ hooks' = [hooks EXCEPT ![j] = @ + 1]
    /\ pending' = [pending EXCEPT ![j] = @ \o HookEvent(j, st)]
    /\ UNCHANGED <<variant, resp, download_progress, active_connections, sent, pc, url,
                   running, mp3_files, zipf, storage, outputs, sealed, late,
                   streamVars>>

\* A task created by the hook runs: send_progress(download_id, data).
send_progress_task(j) ==
    /\ variant = "ws"
    /\ LoopFree
    /\ pending[j] # <<>>
    /\ pending' = [pending EXCEPT ![j] = Tail(@)]
    /\ SendProgress(j, Head(pending[j]))
    /\ UNCHANGED <<variant, resp, download_progress, active_connections, storage, jobVars,
                   spc, sid, progress_data, cancelled>>

\* extract_info returns: await send_progress(.. "done" ..).
ytdlp_returns_ws(j) ==
    /\ variant = "ws"
    /\ running = j
    /\ pc[j] = "extract_info"
    /\ storage' = storage \cup {MediaFile(j)}
    /\ SendProgress(j, [event |-> "done", title |-> "video", filename |-> MediaFile(j),
                        download_url |-> MediaFile(j)])
    /\ Finish(j)
    /\ UNCHANGED <<variant, resp, download_progress, active_connections, pending, url, zipf,
                   outputs, sealed, late, spc, sid, progress_data, cancelled>>

AuthMsg == "YouTube requires authentication. Please contact the server administrator to add cookies.txt"

\* "Sign in" in error_msg or "bot" in error_msg
NeedsAuth(msg) == msg = "ERROR: Sign in to confirm you're not a bot"

\* except yt_dlp.utils.DownloadError / except Exception of the WebSocket variant.
YtdlpErrorEvent(msg) ==
    [event |-> "error", error |-> IF NeedsAuth(msg) THEN AuthMsg ELSE msg]

ytdlp_raises_ws(j, msg) ==
    /\ variant = "ws"
    /\ running = j
    /\ pc[j] = "extract_info"
    /\ SendProgress(j, YtdlpErrorEvent(msg))
    /\ Finish(j)
    /\ UNCHANGED <<variant, resp, download_progress, active_connections, pending, url, zipf,
                   storage, outputs, sealed, late, spc, sid, progress_data, cancelled>>

\* except Exception as e: of the WebSocket variant's process_spotify_download.
SpotifyExceptWs(j, msg) ==
    SendProgress(j, [event |-> "error", error |-> "Spotify download failed: " \o msg])

spotify_run_raises_ws(j, msg) ==
    /\ variant = "ws"
    /\ running = j
    /\ pc[j] = "subprocess"
    /\ SpotifyExceptWs(j, msg)
    /\ Finish(j)
    /\ UNCHANGED <<variant, resp, download_progress, active_connections, pending, url, zipf,
                   storage, outputs, sealed, late, spc, sid, progress_data, cancelled>>

spotify_run_fails_ws(j, stderr) ==
    /\ variant = "ws"
    /\ running = j
    /\ pc[j] = "subprocess"
    /\ SpotifyExceptWs(j, StderrOr(stderr))
    /\ Finish(j)
    /\ UNCHANGED <<variant, resp, download_progress, active_connections, pending, url, zipf,
                   storage, outputs, sealed, late, spc, sid, progress_data, cancelled>>

spotify_run_returns_ws(j, new) ==
    /\ variant = "ws"
    /\ running = j
    /\ pc[j] = "subprocess"
    /\ new \cap storage = {}
    /\ outputs' = [outputs EXCEPT ![j] = new]
    /\ LET after == storage \cup new
           listed == ListMp3(after)
           zip == ZipFileWs(j, Cardinality(listed))
       IN  IF listed = {}
             THEN /\ SpotifyExceptWs(j, "No files downloaded")
                  /\ Finish(j)
                  /\ storage' = after
                  /\ UNCHANGED zipf
             ELSE IF Cardinality(listed) = 1
               THEN /\ \E f \in listed :
                          SendProgress(j, [event |-> "done", filename |-> f,
                                           download_url |-> f])
                    /\ Finish(j)
                    /\ storage' = after
                    /\ UNCHANGED zipf
               ELSE /\ SendProgress(j, [event |-> "progress", status |-> "zipping"])
                    /\ zipf' = [zipf EXCEPT ![j] =
                                  [name |-> zip, entries |-> {}, open |-> TRUE]]
                    /\ storage' = after \cup {zip}
                    /\ mp3_files' = [mp3_files EXCEPT ![j] = listed]
                    /\ pc' = [pc EXCEPT ![j] = "zipping"]
                    /\ UNCHANGED <<running, hooks>>
    /\ UNCHANGED <<variant, resp, download_progress, active_connections, pending, url,
                   sealed, late, spc, sid, progress_data, cancelled>>

zip_write_ws(j, f) ==
    /\ variant = "ws"
    /\ running = j
    /\ pc[j] = "zipping"
    /\ f \in mp3_files[j]
    /\ f \in storage
    /\ zipf' = [zipf EXCEPT ![j].entries = @ \cup {f}]
    /\ storage' = storage \ {f}
    /\ mp3_files' = [mp3_files EXCEPT ![j] = @ \ {f}]
    /\ UNCHANGED <<variant, resp, wsVars, download_progress, pc, url, running, hooks,
                   outputs, sealed, late, streamVars>>

zip_write_raises_ws(j) ==
    /\ variant = "ws"
    /\ running = j
    /\ pc[j] = "zipping"
    /\ mp3_files[j] # {}
    /\ zipf' = [zipf EXCEPT ![j].open = FALSE]
    /\ SpotifyExceptWs(j, "[Errno 28] No space left on device")
    /\ Finish(j)
    /\ UNCHANGED <<variant, resp, download_progress, active_connections, pending, url,
                   storage, outputs, sealed, late, spc, sid, progress_data, cancelled>>

zip_close_ws(j) ==
    /\ variant = "ws"
    /\ running = j
    /\ pc[j] = "zipping"
    /\ mp3_files[j] = {}
    /\ zipf' = [zipf EXCEPT ![j].open = FALSE]
    /\ SendProgress(j, [event |-> "done", filename |-> zipf[j].name,
                        download_url |-> zipf[j].name])
    /\ Finish(j)
    /\ UNCHANGED <<variant, resp, download_progress, active_connections, pending, url,
                   storage, outputs, sealed, late, spc, sid, progress_data, cancelled>>

(* ===================== file delivery and deletion ======================= *)
MaxSize == 3

ChunkSize == 8192

\* A directory name as a path component.
Comp(name) == File(name, 0, "")

DotDot == Comp("..")

\* DOWNLOAD_DIR = os.path.join(os.getcwd(), "downloads")
DOWNLOAD_DIR == <<Comp("app"), Comp("downloads")>>

\* COOKIES_FILE = os.path.join(os.getcwd(), "cookies.txt")
COOKIES_FILE == <<Comp("app"), File("cookies", 0, "txt")>>

\* The rest of the file system: directories, and files outside DOWNLOAD_DIR.
Dirs == {<<>>, <<Comp("app")>>, DOWNLOAD_DIR, <<Comp("etc")>>}

OutsideFiles == {COOKIES_FILE, <<Comp("etc"), File("passwd", 0, "")>>}

InRoot(p) ==
    /\ Len(p) > Len(DOWNLOAD_DIR)
    /\ SubSeq(p, 1, Len(DOWNLOAD_DIR)) = DOWNLOAD_DIR

IsFilePath(p) ==
    \/ p \in OutsideFiles
    \/ /\ Len(p) = Len(DOWNLOAD_DIR) + 1
       /\ InRoot(p)
       /\ p[Len(p)] \in storage

\* A requested filename: its components, and whether it starts with "/".
Filename(abs, parts) == [abs |-> abs, parts |-> parts]

\* os.path.join(DOWNLOAD_DIR, filename): an absolute filename replaces the root.
Join(dir, fn) == IF fn.abs THEN fn.parts ELSE dir \o fn.parts

\* What the operating system makes of a path: ".." goes to the parent, and
\* every component that is passed through must be a directory.
RECURSIVE Walk(_, _)
Walk(cur, rest) ==
    IF rest = <<>>
      THEN [ok |-> TRUE, path |-> cur]
      ELSE IF cur \notin Dirs
        THEN [ok |-> FALSE, path |-> <<>>]
        ELSE IF Head(rest) = DotDot
          THEN Walk(IF cur = <<>> THEN <<>> ELSE SubSeq(cur, 1, Len(cur) - 1), Tail(rest))
          ELSE Walk(Append(cur, Head(rest)), Tail(rest))

Resolve(fn) == Walk(<<>>, Join(DOWNLOAD_DIR, fn))

\* os.path.exists(file_path)
Exists(fn) ==
    LET r == Resolve(fn) IN r.ok /\ (IsFilePath(r.path) \/ r.path \in Dirs)

Min2(a, b) == IF a < b THEN a ELSE b

\* file_generator(start, end): the number of bytes it yields from a file of
\* `size` bytes, read in chunks of at most 8192 from offset pos.
RECURSIVE GeneratorBytes(_, _, _)
GeneratorBytes(pos, remaining, size) ==
    IF remaining <= 0
      THEN 0
      ELSE LET want == Min2(ChunkSize, remaining)
               left == IF size > pos THEN size - pos ELSE 0
               chunk == Min2(want, left)
           IN  IF chunk = 0 THEN 0
               ELSE chunk + GeneratorBytes(pos + chunk, remaining - chunk, size)

\* The body streamed for file_generator(start, end) over the resolved path:
\* open() of a directory fails before any byte is sent.
Body(fn, start, end, size) ==
    IF IsFilePath(Resolve(fn).path)
      THEN GeneratorBytes(start, end - start + 1, size)
      ELSE 0

\* A part of the Range value between "-" signs: digits, nothing, or other text.
Tok(kind, val) == [kind |-> kind, val |-> val]

Empty == Tok("empty", 0)

Junk == Tok("junk", 0)

Num(n) == Tok("int", n)

\* The Range header: absent, or range_header.strip().split("=")[-1].split("-").
NoRange == <<>>

RangeHeaders ==
    {NoRange, <<Junk>>, <<Empty, Num(1)>>, <<Junk, Num(1)>>, <<Num(0), Junk>>,
     <<Num(0), Num(1), Num(2)>>}
      \cup {<<Num(a), Empty>> : a \in 0..MaxSize}
      \cup {<<Num(a), Num(b)>> : a \in 0..MaxSize, b \in 0..MaxSize}

\* byte1, byte2 = range_str.split("-"); int(byte1); int(byte2) if byte2 else
\* file_size - 1.  Anything that raises gives 400.
RangeOk(h) ==
    /\ Len(h) = 2
    /\ h[1].kind = "int"
    /\ h[2].kind \in {"int", "empty"}

Byte1(h) == h[1].val

\* Variant of Byte2 in which an omitted end defaults to file_size.
Byte2Exclusive(h, size) == IF h[2].kind = "empty" THEN size ELSE h[2].val

Byte2(h, size) == IF h[2].kind = "empty" THEN size - 1 ELSE h[2].val

\* GET /downloads/{filename:path}
DownloadResponse(fn, h, size) ==
    IF ~Exists(fn)
      THEN [op |-> "download", filename |-> fn, range |-> h, status |-> 404,
            nbytes |-> 0]
      ELSE IF h # NoRange
        THEN IF ~RangeOk(h)
               THEN [op |-> "download", filename |-> fn, range |-> h,
                     status |-> 400, file_size |-> size, nbytes |-> 0]
               ELSE [op |-> "download", filename |-> fn, range |-> h,
                     status |-> 206,
                     file_size |-> size,
                     start |-> Byte1(h),
                     nbytes |-> Body(fn, Byte1(h), Byte2(h, size), size),
                     content_range |-> <<Byte1(h), Byte2(h, size), size>>,
                     content_length |-> Byte2(h, size) - Byte1(h) + 1]
        ELSE [op |-> "download", filename |-> fn, range |-> h, status |-> 200,
              file_size |-> size,
              start |-> 0,
              nbytes |-> Body(fn, 0, size - 1, size),
              content_length |-> size]

download(fn, h, size) ==
    /\ LoopFree
    /\ resp' = DownloadResponse(fn, h, size)
    /\ UNCHANGED <<variant, wsVars, download_progress, storage, jobVars, streamVars>>

\* Variant of delete_file that reports success for a file that is not there.
delete_file_blind(f) ==
    /\ LoopFree
    /\ storage' = storage \ {f}
    /\ resp' = [op |-> "delete_file", filename |-> f, status |-> 200]
    /\ UNCHANGED <<variant, wsVars, download_progress, jobVars, streamVars>>

\* DELETE /api/files/{filename}: one path segment under DOWNLOAD_DIR.
delete_file(f) ==
    /\ LoopFree
    /\ IF f \notin storage
         THEN /\ resp' = [op |-> "delete_file", filename |-> f, status |-> 404]
              /\ UNCHANGED storage
         ELSE /\ storage' = storage \ {f}
              /\ resp' = [op |-> "delete_file", filename |-> f, status |-> 200]
    /\ UNCHANGED <<variant, wsVars, download_progress, jobVars, streamVars>>

\* The files jobs leave in DOWNLOAD_DIR.
StoredFiles == OldFiles \cup {File("track", 1, "mp3"), MediaFile(1)}

\* The filenames a client may ask for.
Filenames ==
    {Filename(FALSE, <<f>>) : f \in StoredFiles}
      \cup {Filename(FALSE, <<>>),
            Filename(FALSE, <<DotDot>>),
            Filename(FALSE, <<DotDot, File("cookies", 0, "txt")>>),
            Filename(FALSE, <<DotDot, DotDot, Comp("etc"), File("passwd", 0, "")>>),
            Filename(FALSE, <<DotDot, Comp("downloads"), MediaFile(1)>>),
            Filename(FALSE, <<MediaFile(1), DotDot, MediaFile(1)>>),
            Filename(TRUE, <<Comp("etc"), File("passwd", 0, "")>>)}

\* os.path.getsize(file_path): small files, and one that takes two chunks.
Sizes == 0..MaxSize \cup {ChunkSize + 1}

DeliveryInit == InitWith(StoredFiles) /\ variant = "sse"

DeliveryNext ==
    \/ \E fn \in Filenames, h \in RangeHeaders, size \in Sizes : download(fn, h, size)
    \/ \E f \in StoredFiles : delete_file(f)

DeliverySpec == DeliveryInit /\ [][DeliveryNext]_vars

(* ========================== format listing ============================== *)
MaxFormats == 3

\* f.get(key) of a key the extractor left out.
None == "<None>"

\* A resolution string as the code points of its characters ("0" is 48,
\* "x" is 120): Python orders strings by code point.
R1080 == <<49, 57, 50, 48, 120, 49, 48, 56, 48>>

R360 == <<54, 52, 48, 120, 51, 54, 48>>

AudioOnly == <<97, 117, 100, 105, 111>>

\* A raw format of info["formats"]; bit rates are in hundredths of a kbit/s
\* (the Spotify entry of get_formats has abr 82.48).
Raw(id, vcodec, acodec, resolution, ext, fps, abr) ==
    [format_id |-> id, vcodec |-> vcodec, acodec |-> acodec,
     resolution |-> resolution, ext |-> ext, fps |-> fps, abr |-> abr,
     filesize |-> None]

RawFormats ==
    {Raw("137", "avc1", "none", R1080, "mp4", 30, 0),
     Raw("399", "av01", "none", R1080, "mp4", 30, 0),
     Raw("248", "vp9", "none", R1080, "webm", 30, 0),
     Raw("18", "avc1", "mp4a", R360, "mp4", 30, 9600),
     Raw("140", "none", "mp4a", AudioOnly, "m4a", 0, 12800),
     Raw("251", "none", "opus", AudioOnly, "webm", 0, 12800),
     Raw("249", "none", "opus", AudioOnly, "webm", 0, 5000),
     Raw("sb0", "none", "none", R360, "mhtml", 0, 0),
     Raw("hls", None, None, R360, "mp4", 0, 0)}

\* The lists extract_info may return, in the extractor's order.
RECURSIVE ListsUpTo(_)
ListsUpTo(n) ==
    IF n = 0 THEN {<<>>}
    ELSE LET shorter == ListsUpTo(n - 1)
         IN  shorter \cup {Append(l, f) : l \in {x \in shorter : Len(x) = n - 1},
                                          f \in RawFormats}

FormatLists == ListsUpTo(MaxFormats)

\* f.get("vcodec") != "none" and f.get("vcodec") != None
IsVideoFormat(f) == f.vcodec # "none" /\ f.vcodec # None

\* elif f.get("acodec") != "none" and f.get("acodec") != None
IsAudioFormat(f) == ~IsVideoFormat(f) /\ f.acodec # "none" /\ f.acodec # None

\* The dictionary appended to video_formats; the WebSocket variant adds fps
\* and vcodec.
VideoEntry(v, f) ==
    IF v = "sse"
      THEN [format_id |-> f.format_id, ext |-> f.ext, resolution |-> f.resolution,
            filesize |-> f.filesize]
      ELSE [format_id |-> f.format_id, ext |-> f.ext, resolution |-> f.resolution,
            filesize |-> f.filesize, fps |-> f.fps, vcodec |-> f.vcodec]

\* The dictionary appended to audio_formats; the WebSocket variant adds acodec.
AudioEntry(v, f) ==
    IF v = "sse"
      THEN [format_id |-> f.format_id, ext |-> f.ext, abr |-> f.abr,
            filesize |-> f.filesize]
      ELSE [format_id |-> f.format_id, ext |-> f.ext, abr |-> f.abr,
            filesize |-> f.filesize, acodec |-> f.acodec]

\* Variant of Videos without the seen_video test.
RECURSIVE VideosAll(_, _, _)
VideosAll(v, fs, seen_video) ==
    IF fs = <<>> THEN <<>>
    ELSE IF IsVideoFormat(Head(fs))
      THEN <<VideoEntry(v, Head(fs))>> \o VideosAll(v, Tail(fs), seen_video)
      ELSE VideosAll(v, Tail(fs), seen_video)

\* for f in formats: the video branch, seen_video being a set of resolutions.
RECURSIVE Videos(_, _, _)
Videos(v, fs, seen_video) ==
    IF fs = <<>> THEN <<>>
    ELSE LET f == Head(fs)
         IN  IF IsVideoFormat(f) /\ f.resolution \notin seen_video
               THEN <<VideoEntry(v, f)>>
                      \o Videos(v, Tail(fs), seen_video \cup {f.resolution})
               ELSE Videos(v, Tail(fs), seen_video)

\* for f in formats: the audio branch; a format without bit rate is skipped.
RECURSIVE Audios(_, _, _)
Audios(v, fs, seen_audio) ==
    IF fs = <<>> THEN <<>>
    ELSE LET f == Head(fs)
         IN  IF IsAudioFormat(f) /\ f.abr # 0 /\ f.abr \notin seen_audio
               THEN <<AudioEntry(v, f)>>
                      \o Audios(v, Tail(fs), seen_audio \cup {f.abr})
               ELSE Audios(v, Tail(fs), seen_audio)

\* Python's str "<": by code point, a proper prefix being smaller.
RECURSIVE StrLess(_, _)
StrLess(a, b) ==
    IF b = <<>> THEN FALSE
    ELSE IF a = <<>> THEN TRUE
    ELSE IF Head(a) # Head(b) THEN Head(a) < Head(b)
    ELSE StrLess(Tail(a), Tail(b))

\* list.sort(key=..., reverse=True) is stable: x goes behind every entry whose
\* key is not smaller than its own.
RECURSIVE InsertVideo(_, _)
InsertVideo(x, sorted) ==
    IF sorted = <<>> THEN <<x>>
    ELSE IF StrLess(Head(sorted).resolution, x.resolution)
      THEN <<x>> \o sorted
      ELSE <<Head(sorted)>> \o InsertVideo(x, Tail(sorted))

\* video_formats.sort(key=lambda x: x.get("resolution", ""), reverse=True)
RECURSIVE SortVideo(_)
SortVideo(l) ==
    IF l = <<>> THEN <<>>
    ELSE InsertVideo(l[Len(l)], SortVideo(SubSeq(l, 1, Len(l) - 1)))

RECURSIVE InsertAudio(_, _)
InsertAudio(x, sorted) ==
    IF sorted = <<>> THEN <<x>>
    ELSE IF Head(sorted).abr < x.abr
      THEN <<x>> \o sorted
      ELSE <<Head(sorted)>> \o InsertAudio(x, Tail(sorted))

\* audio_formats.sort(key=lambda x: x.get("abr", 0), reverse=True)
RECURSIVE SortAudio(_)
SortAudio(l) ==
    IF l = <<>> THEN <<>>
    ELSE InsertAudio(l[Len(l)], SortAudio(SubSeq(l, 1, Len(l) - 1)))

\* video_formats[:10], audio_formats[:10]
TopN == 10

Take(l, n) == SubSeq(l, 1, Min2(n, Len(l)))

\* An error text as the sequence of its characters.
SignIn == <<"S", "i", "g", "n", " ", "i", "n">>

Bot == <<"b", "o", "t">>

\* "Sign in to confirm you're not a bot"
BotCheckText ==
    SignIn \o <<" ", "t", "o", " ", "c", "o", "n", "f", "i", "r", "m", " ", "y", "o",
                "u", "'", "r", "e", " ", "n", "o", "t", " ", "a", " ">> \o Bot

\* "Sign in to confirm your age"
AgeCheckText ==
    SignIn \o <<" ", "t", "o", " ", "c", "o", "n", "f", "i", "r", "m", " ", "y", "o",
                "u", "r", " ", "a", "g", "e">>

\* "robot42: Video unavailable" (the text names the video)
UnavailableText ==
    <<"r", "o", "b", "o", "t", "4", "2", ":", " ", "V", "i", "d", "e", "o", " ", "u",
      "n", "a", "v", "a", "i", "l", "a", "b", "l", "e">>

\* "Unsupported URL"
UnsupportedText ==
    <<"U", "n", "s", "u", "p", "p", "o", "r", "t", "e", "d", " ", "U", "R", "L">>

\* What extract_info raises: the exception's class, its text, and whether the
\* source asked for authentication.
Failure(cls, auth, text) == [cls |-> cls, auth |-> auth, text |-> text]

ExtractorFailures ==
    {Failure("DownloadError", TRUE, BotCheckText),
     Failure("DownloadError", TRUE, AgeCheckText),
     Failure("DownloadError", FALSE, UnavailableText),
     Failure("DownloadError", FALSE, UnsupportedText),
     Failure("Exception", FALSE, UnsupportedText)}

\* needle in text
Contains(text, needle) ==
    \E i \in 1..(Len(text) - Len(needle) + 1) :
        SubSeq(text, i, i + Len(needle) - 1) = needle

\* f"Failed to fetch formats: {str(e)}"
FailedDetail(e) == [prefix |-> "Failed to fetch formats: ", text |-> e.text]

AuthDetail ==
    [prefix |-> "YouTube requires authentication. Please add cookies.txt file to the server.",
     text |-> <<>>]

\* The except clauses of get_formats: the SSE variant has one (lines 119-120),
\* the WebSocket variant tells DownloadError apart (lines 552-562).
FormatsFailure(v, e) ==
    IF v = "ws" /\ e.cls = "DownloadError"
         /\ (Contains(e.text, SignIn) \/ Contains(e.text, Bot))
      THEN [status |-> 403, detail |-> AuthDetail]
      ELSE [status |-> 500, detail |-> FailedDetail(e)]

\* What extract_info(url, download=False) does: returns formats, or raises.
ExtractorResults ==
    {[ok |-> TRUE, formats |-> l] : l \in FormatLists}
      \cup {[ok |-> FALSE, error |-> e] : e \in ExtractorFailures}

\* POST /api/formats
FormatsResponse(v, u, result) ==
    IF u = ""
      THEN [op |-> "get_formats", url |-> u, status |-> 400]
      ELSE IF IsSpotify(u)
        THEN [op |-> "get_formats", url |-> u, status |-> 200,
              title |-> "Spotify Track",
              audio_formats |-> <<[format_id |-> "spotify_mp3", ext |-> "mp3",
                                   abr |-> 8248, filesize |-> 8374838]>>,
              video_formats |-> <<>>]
        ELSE IF ~result.ok
          THEN [op |-> "get_formats", url |-> u, result |-> result,
                status |-> FormatsFailure(v, result.error).status,
                detail |-> FormatsFailure(v, result.error).detail]
          ELSE [op |-> "get_formats", url |-> u, result |-> result, status |-> 200,
                title |-> "video",
                video_formats |->
                    Take(SortVideo(Videos(v, result.formats, {})), TopN),
                audio_formats |->
                    Take(SortAudio(Audios(v, result.formats, {})), TopN)]

get_formats(u, result) ==
    /\ LoopFree
    /\ resp' = FormatsResponse(variant, u, result)
    /\ UNCHANGED <<variant, wsVars, download_progress, storage, jobVars, streamVars>>

FormatsNext == \E u \in Urls, result \in ExtractorResults : get_formats(u, result)

FormatsSpec == Init /\ [][FormatsNext]_vars

(* ------------------------------- Next ---------------------------------- *)
JobStep(j) ==
    \/ process_download(j)
    \/ \E st \in HookStatuses : progress_hook(j, st)
    \/ ytdlp_returns(j)
    \/ \E msg \in YtdlpErrors : ytdlp_raises(j, msg)
    \/ \E msg \in RunErrors : spotify_run_raises(j, msg)
    \/ \E stderr \in SpotdlStderr : spotify_run_fails(j, stderr)
    \/ \E new \in SUBSET TrackFiles : spotify_run_returns(j, new)
    \/ \E f \in TrackFiles \cup OldFiles : zip_write(j, f)
    \/ zip_write_raises(j)
    \/ zip_close(j)

JobStepWs(j) ==
    \/ process_download_ws(j)
    \/ \E st \in HookStatuses : progress_hook_ws(j, st)
    \/ send_progress_task(j)
    \/ ytdlp_returns_ws(j)
    \/ \E msg \in YtdlpErrors : ytdlp_raises_ws(j, msg)
    \/ \E msg \in RunErrors : spotify_run_raises_ws(j, msg)
    \/ \E stderr \in SpotdlStderr : spotify_run_fails_ws(j, stderr)
    \/ \E new \in SUBSET TrackFiles : spotify_run_returns_ws(j, new)
    \/ \E f \in TrackFiles \cup OldFiles : zip_write_ws(j, f)
    \/ zip_write_raises_ws(j)
    \/ zip_close_ws(j)

StreamStep(s) ==
    \/ stream_poll(s)
    \/ stream_resume(s)
    \/ stream_wake(s)
    \/ stream_cleanup(s)

\* The SSE server (lines 1-427).
SseNext ==
    \/ \E j \in Jobs, u \in Urls, f \in FormatIds : initiate_download(j, u, f)
    \/ \E j \in Jobs : JobStep(j)
    \/ \E s \in Streams, id \in Jobs \cup {UnknownId} : stream_progress(s, id)
    \/ \E s \in Streams : StreamStep(s)
    \/ \E s \in Streams : stream_cancel(s)

\* The WebSocket server (lines 429-855).
WsNext ==
    \/ \E j \in Jobs, u \in Urls, f \in FormatIds : initiate_download_ws(j, u, f)
    \/ \E j \in Jobs : JobStepWs(j)
    \/ \E c \in Streams, id \in Jobs \cup {UnknownId} : websocket_endpoint(c, id)
    \/ \E c \in Streams : websocket_disconnect(c)

Next == SseNext \/ WsNext

Spec == Init /\ [][Next]_vars

(* ----------------------------- fairness -------------------------------- *)
\* The event loop runs every task that is ready, and the downloader call
\* returns, raises or times out: a job's task and a stream's generator go on
\* whenever they can.  Clients owe nothing: requests, subscriptions and
\* disconnections may never come.
FairInit == Init /\ variant = "sse" /\ storage = {}

Fairness ==
    /\ \A j \in Jobs : WF_vars(JobStep(j))
    /\ \A s \in Streams : WF_vars(StreamStep(s))

FairSpec == FairInit /\ [][SseNext]_vars /\ Fairness

(* ------------------------------ claims --------------------------------- *)
\* C1: every job created by initiate_download eventually has a terminal
\* status (done or error) in the registry, whatever the downloader call does
\* (returns, raises, times out).
C1_JobReachesTerminal ==
    \A j \in Jobs :
        (pc[j] = "scheduled") ~> (Has(j) /\ IsTerminal(download_progress[j]))

\* C1 witness: a job whose downloader call failed has ended with status error.
C1_Witness ==
    \E j \in Jobs :
        /\ pc[j] = "finished"
        /\ Has(j)
        /\ download_progress[j].status = "error"

\* C2: the status stored for a job id only moves forward along
\* starting -> downloading -> processing -> (zipping ->) done, error being
\* reachable from a non-terminal status only; it never goes back from
\* processing to downloading and never leaves done or error.
StatusRank(st) ==
    CASE st = "starting" -> 1
      [] st = "downloading" -> 2
      [] st = "processing" -> 3
      [] st = "zipping" -> 4
      [] OTHER -> 5

Forward(a, b) ==
    \/ a = b
    \/ a \notin TerminalStatuses /\ (b = "error" \/ StatusRank(a) < StatusRank(b))

C2_StatusOnlyForward ==
    [][\A j \in Jobs :
          (Has(j) /\ j \in DOMAIN download_progress')
              => Forward(download_progress[j].status, download_progress'[j].status)]_vars

C4_UnknownIdStreamEnds ==
    \A s \in Streams :
        (spc[s] = "poll" /\ sid[s] = UnknownId)
            ~> (cancelled[s] \/ (spc[s] = "ended" /\ emitted[s] # "none"))

\* C5: a stream opened for an existing job and not cancelled: once the job's
\* status in the registry is terminal, the stream eventually has pushed the
\* terminal snapshot and has ended.
C5_StreamDeliversTerminal ==
    \A s \in Streams :
        (spc[s] \in {"poll", "yield", "sleep"} /\ Has(sid[s])
            /\ IsTerminal(download_progress[sid[s]]))
            ~> (cancelled[s] \/ (spc[s] = "ended" /\ emitted[s] = "terminal"))

\* C6: the outcome of a finished job is not lost: it is in the registry for a
\* client that polls later, or a client has received it.
Delivered(j) ==
    \/ \E s \in Streams : sid[s] = j /\ emitted[s] = "terminal"
    \/ \E i \in DOMAIN sent[j] : IsFinalEvent(sent[j][i])

C6_OutcomeNotLost ==
    \A j \in Jobs :
        pc[j] = "finished"
            => \/ Has(j) /\ IsTerminal(download_progress[j])
               \/ Delivered(j)

\* C7: while a job is in its download step (extract_info or the spotdl
\* subprocess), a progress stream that is due can poll and a new download
\* request can be accepted.
InDownloadStep(j) == pc[j] \in {"extract_info", "subprocess"}

C7_DownloadDoesNotBlock ==
    (\E j \in Jobs : InDownloadStep(j))
        => /\ \A s \in Streams : spc[s] = "poll" => ENABLED stream_poll(s)
           /\ \A j \in Jobs : FreshId(j) =>
                 ENABLED (initiate_download(j, MediaUrl, "137+140")
                            \/ initiate_download_ws(j, MediaUrl, "137+140"))

\* C8: cancelling a progress stream changes neither the registry nor any
\* job's task, and the job of a cancelled stream still runs to its end.
C8_CancelLeavesJob ==
    /\ [][\A s \in Streams :
            (spc[s] # "ended" /\ spc'[s] = "ended" /\ cancelled'[s])
                => /\ download_progress' = download_progress
                   /\ pc' = pc
                   /\ running' = running]_vars
    /\ \A j \in Jobs : (pc[j] = "scheduled") ~> (pc[j] = "finished")

\* C8 witness: the stream of a job was cancelled before the job's task
\* started, and the job ended with its terminal status in the registry.
C8_Witness ==
    \E s \in Streams :
        /\ cancelled[s]
        /\ sid[s] \in Jobs
        /\ pc[sid[s]] = "finished"
        /\ Has(sid[s])
        /\ IsTerminal(download_progress[sid[s]])
        /\ emitted[s] = "progress"

\* C9: a finished Spotify job whose downloader run wrote N files: for N > 1
\* the artifact is one archive holding exactly those N files, none of which
\* remains in storage; for N = 1 the artifact is that file.  Stated for the
\* first job that ran, right after it ended, whatever storage held before.
FirstJob(j) == \A k \in Jobs \ {j} : pc[k] \in {"unused", "scheduled"}

C9_SpotifyArtifact ==
    \A j \in Jobs :
        (/\ pc[j] = "finished" /\ IsSpotify(url[j]) /\ FirstJob(j)
         /\ Has(j) /\ download_progress[j].status = "done")
            => LET N == Cardinality(outputs[j])
                   artifact == download_progress[j].filename
               IN  /\ N > 1 => /\ artifact.ext = "zip"
                               /\ zipf[j].name = artifact
                               /\ zipf[j].entries = outputs[j]
                               /\ outputs[j] \cap storage = {}
                   /\ N = 1 => artifact \in outputs[j]

\* C10: for a filename whose path resolves to a file outside the storage
\* root (through ".." components or as an absolute path), download() answers
\* forbidden or not found, and streams no byte of that file.
EscapesRoot(fn) ==
    /\ Resolve(fn).ok
    /\ IsFilePath(Resolve(fn).path)
    /\ ~InRoot(Resolve(fn).path)

C10_NoEscapeFromRoot ==
    (resp.op = "download" /\ EscapesRoot(resp.filename))
        => (resp.status \in {403, 404} /\ resp.nbytes = 0)

\* C11: for a file of size S and a range with 0 <= start <= end < S (end
\* defaulting to S-1 when omitted), download() answers 206, streams exactly
\* the end-start+1 bytes from offset start, with Content-Range
\* "bytes start-end/S" and Content-Length end-start+1; with no Range header
\* it streams all S bytes with Content-Length S.
ServedFile ==
    /\ resp.op = "download"
    /\ Resolve(resp.filename).ok
    /\ IsFilePath(Resolve(resp.filename).path)

\* A single "start-end" or "start-" pair of non-negative integers.
IsPair(h) ==
    /\ Len(h) = 2
    /\ h[1].kind = "int"
    /\ h[2].kind \in {"int", "empty"}

ReqStart(h) == h[1].val

ReqEnd(h, S) == IF h[2].kind = "int" THEN h[2].val ELSE S - 1

C11_RangeDelivery ==
    ServedFile =>
        LET h == resp.range
            S == resp.file_size
        IN  /\ h = NoRange =>
                /\ resp.status = 200
                /\ resp.start = 0
                /\ resp.nbytes = S
                /\ resp.content_length = S
            /\ (h # NoRange /\ IsPair(h) /\ ReqStart(h) <= ReqEnd(h, S) /\ ReqEnd(h, S) < S) =>
                /\ resp.status = 206
                /\ resp.start = ReqStart(h)
                /\ resp.nbytes = ReqEnd(h, S) - ReqStart(h) + 1
                /\ resp.content_range = <<ReqStart(h), ReqEnd(h, S), S>>
                /\ resp.content_length = ReqEnd(h, S) - ReqStart(h) + 1

\* C11 witness: a range with omitted end over a stored file was answered 206
\* with more than one byte.
C11_Witness ==
    /\ ServedFile
    /\ resp.status = 206
    /\ resp.range # NoRange
    /\ resp.range[2] = Empty
    /\ resp.nbytes > 1

\* C12: every malformed Range header (anything but a single "start-end" or
\* "start-" pair of non-negative integers with start <= end) is answered with
\* a 4xx status and no byte of the file is streamed.
Malformed(h) ==
    /\ h # NoRange
    /\ ~(IsPair(h) /\ (h[2].kind = "int" => h[1].val <= h[2].val))

C12_MalformedRangeRejected ==
    (ServedFile /\ InRoot(Resolve(resp.filename).path) /\ Malformed(resp.range))
        => (resp.status \in 400..499 /\ resp.nbytes = 0)

\* C14: delete_file(name) answers 404 and leaves storage unchanged when no
\* regular file of that name exists; and a delete_file(name) that follows a
\* successful delete_file(name) answers 404.
C14_DeleteMissingNotFound ==
    [][\A f \in StoredFiles :
          delete_file(f) =>
            /\ f \notin storage => (resp'.status = 404 /\ storage' = storage)
            /\ (resp.op = "delete_file" /\ resp.status = 200 /\ resp.filename = f)
                  => (resp'.status = 404 /\ storage' = storage)]_vars

\* C14 witness: a delete_file of an absent file was answered 404.
C14_Witness ==
    /\ resp.op = "delete_file"
    /\ resp.status = 404
    /\ resp.filename \notin storage

\* C13: when the download step fails (extract_info raises; spotdl times out,
\* cannot be run, exits non-zero, or exits 0 leaving no output file), the step
\* ends the task with status error and a non-empty message, which carries the
\* tool's text when there is one; the job is not stored as done.
ErrorStored(j, text) ==
    /\ pc'[j] = "finished"
    /\ Has(j)'
    /\ download_progress'[j].status = "error"
    /\ download_progress'[j].error # ""
    /\ text # "" => download_progress'[j].error \in {text, "Spotify download failed: " \o text}

C13_FailureGivesError ==
    [][\A j \in Jobs :
          /\ \A msg \in YtdlpErrors : ytdlp_raises(j, msg) => ErrorStored(j, msg)
          /\ \A msg \in RunErrors : spotify_run_raises(j, msg) => ErrorStored(j, msg)
          /\ \A stderr \in SpotdlStderr :
                spotify_run_fails(j, stderr) => ErrorStored(j, stderr)
          /\ spotify_run_returns(j, {}) => ErrorStored(j, "")]_vars

\* C15: when format listing fails because the source requires authentication,
\* get_formats answers with an outcome (status code and message) that it gives
\* for no other extractor failure.
ListingFailed ==
    /\ resp.op = "get_formats"
    /\ resp.status \notin {200, 400}

C15_AuthDistinguishable ==
    (ListingFailed /\ resp.result.error.auth) =>
        \A other \in ExtractorFailures :
            ~other.auth =>
                FormatsFailure(variant, other)
                    # [status |-> resp.status, detail |-> resp.detail]

\* C16: the video_formats of get_formats hold no two entries with the same
\* (resolution, extension, frame rate), the audio_formats no two entries with
\* the same bit rate, and every entry is the first format with its key in the
\* extractor's order.
Listed ==
    /\ resp.op = "get_formats"
    /\ resp.status = 200
    /\ ~IsSpotify(resp.url)

RawOf(entry) == CHOOSE f \in RawFormats : f.format_id = entry.format_id

VideoKey(f) == <<f.resolution, f.ext, f.fps>>

FirstOfKey(l, entry, IsKind(_), Key(_)) ==
    \E k \in DOMAIN l :
        /\ l[k].format_id = entry.format_id
        /\ IsKind(l[k])
        /\ \A m \in 1..(k - 1) : IsKind(l[m]) => Key(l[m]) # Key(l[k])

AudioKey(f) == f.abr

C16_FormatsDeduplicated ==
    Listed =>
        LET l == resp.result.formats
            vf == resp.video_formats
            af == resp.audio_formats
        IN  /\ \A i, j \in DOMAIN vf :
                  i # j => VideoKey(RawOf(vf[i])) # VideoKey(RawOf(vf[j]))
            /\ \A i, j \in DOMAIN af : i # j => af[i].abr # af[j].abr
            /\ \A i \in DOMAIN vf : FirstOfKey(l, vf[i], IsVideoFormat, VideoKey)
            /\ \A i \in DOMAIN af : FirstOfKey(l, af[i], IsAudioFormat, AudioKey)

\* C16 witness: the extractor listed two video formats with one key and two
\* audio formats with one bit rate, and one of each was returned.
C16_Witness ==
    /\ Listed
    /\ Len(resp.video_formats) = 1
    /\ Len(resp.audio_formats) = 1
    /\ LET l == resp.result.formats
       IN  /\ Len(l) = 3
           /\ \E i, j \in DOMAIN l :
                 /\ i < j
                 /\ IsVideoFormat(l[i]) /\ IsVideoFormat(l[j])
                 /\ l[i].format_id # l[j].format_id
                 /\ VideoKey(l[i]) = VideoKey(l[j])

\* C17: the video_formats of get_formats are in descending order of numeric
\* resolution and the audio_formats in descending order of bit rate.
RECURSIVE Decimal(_, _)
Decimal(codes, acc) ==
    IF codes = <<>> \/ Head(codes) \notin 48..57 THEN acc
    ELSE Decimal(Tail(codes), acc * 10 + (Head(codes) - 48))

RECURSIVE AfterX(_)
AfterX(codes) ==
    IF codes = <<>> THEN <<>>
    ELSE IF Head(codes) = 120 THEN Tail(codes) ELSE AfterX(Tail(codes))

Pixels(resolution) == Decimal(resolution, 0) * Decimal(AfterX(resolution), 0)

AudioDescending ==
    Listed =>
        \A i, j \in DOMAIN resp.audio_formats :
            i < j => resp.audio_formats[i].abr >= resp.audio_formats[j].abr

C17_FormatsSorted ==
    /\ AudioDescending
    /\ Listed =>
          \A i, j \in DOMAIN resp.video_formats :
              i < j => Pixels(resp.video_formats[i].resolution)
                          >= Pixels(resp.video_formats[j].resolution)

\* C18: a job's registry entry is removed only when the job has a terminal
\* status and a progress stream has pushed the terminal snapshot; an entry
\* with a non-terminal status is never removed.
C18_RemovedOnlyAfterTerminal ==
    [][\A j \in Jobs :
          (Has(j) /\ ~Has(j)') =>
              /\ IsTerminal(download_progress[j])
              /\ \E s \in Streams :
                    /\ sid[s] = j
                    /\ emitted[s] = "terminal"
                    /\ spc[s] = "sleep1"]_vars

\* C18 witness: a stream that pushed the terminal snapshot has ended by itself
\* and the entry of its job is gone.
C18_Witness ==
    \E s \in Streams :
        /\ sid[s] \in Jobs
        /\ spc[s] = "ended"
        /\ ~cancelled[s]
        /\ emitted[s] = "terminal"
        /\ pc[sid[s]] = "finished"
        /\ ~Has(sid[s])

\* C19: the outputs attributed to a Spotify job are the files its downloader
\* run added to the working directory: a file that was in storage before the
\* run is never put in the job's archive, stored as its artifact, or deleted
\* by its bundling step.
OwnOutput(j, f) == f \in outputs[j] \/ f = zipf[j].name

C19_OnlyOwnOutputs ==
    /\ [](\A j \in Jobs :
            /\ zipf[j].entries \subseteq outputs[j]
            /\ (pc[j] = "finished" /\ Has(j) /\ IsSpotify(url[j])
                  /\ download_progress[j].status = "done")
                 => OwnOutput(j, download_progress[j].filename))
    /\ [][\A f \in storage \ storage' :
             \E j \in Jobs : running = j /\ f \in outputs[j]]_vars

\* C20: during bundling no source file is deleted before the archive is
\* completely written and closed: a file is removed from storage only when no
\* archive is open.
C20_DeleteAfterArchiveClosed ==
    [][(storage \ storage' # {}) => \A j \in Jobs : ~zipf[j].open]_vars

\* C21: when multi-file bundling fails part-way and the job reports the
\* error, no partially written archive of that job remains in storage.
C21_NoPartialArchiveLeft ==
    [][\A j \in Jobs :
          (zip_write_raises(j) \/ zip_write_raises_ws(j))
              => zipf[j].name \notin storage']_vars

\* C22: in every registry state an entry carries an artifact reference
\* (filename, download_url) only when its status is done, and an error
\* message only when its status is error.
HasField(d, field) == field \in DOMAIN d

C22_FieldsMatchStatus ==
    \A j \in Jobs :
        Has(j) =>
            LET d == download_progress[j]
            IN  /\ (HasField(d, "filename") \/ HasField(d, "download_url"))
                      => d.status = "done"
                /\ HasField(d, "error") => d.status = "error"

\* C22 witness: the registry holds a done entry with its artifact and an error
\* entry with its message.
C22_Witness ==
    \E j, k \in Jobs :
        /\ Has(j) /\ Has(k)
        /\ download_progress[j].status = "done"
        /\ HasField(download_progress[j], "filename")
        /\ download_progress[k].status = "error"
        /\ HasField(download_progress[k], "error")

\* C23: for every range request that download() answers with 206, the
\* Content-Length header is non-negative and equals the number of bytes the
\* body streams, also when start > end, end >= file size or start >= file size.
C23_ContentLengthIsBodyLength ==
    (ServedFile /\ InRoot(Resolve(resp.filename).path) /\ resp.status = 206)
        => (resp.content_length >= 0 /\ resp.content_length = resp.nbytes)

\* C24: in the WebSocket variant the done or error event is the last message
\* sent for a job: no progress event created by the hook is sent after it,
\* and the progress events are sent in the order the hook produced them.
C24_FinalEventIsLast ==
    \A j \in Jobs :
        \A i, k \in DOMAIN sent[j] :
            i < k =>
                /\ ~IsFinalEvent(sent[j][i])
                /\ (sent[j][i].status = "downloading" /\ ~IsFinalEvent(sent[j][k])
                      /\ sent[j][k].status = "downloading")
                     => sent[j][i].percent < sent[j][k].percent

\* C25: when two progress streams are subscribed to the same existing job at
\* the same time, each of them eventually pushes the terminal snapshot and
\* ends (or is cancelled by its client).
Subscribed(s, j) == sid[s] = j /\ spc[s] \in {"poll", "yield", "sleep", "sleep1"}

C25_AllStreamsDeliverTerminal ==
    \A j \in Jobs :
        \A s, t \in Streams :
            (s # t /\ Has(j) /\ Subscribed(s, j) /\ Subscribed(t, j))
                ~> \A x \in {s, t} :
                      cancelled[x] \/ (spc[x] = "ended" /\ emitted[x] = "terminal")

====
